---- MODULE Spec2Model ----
(***************************************************************************)
(* Cart ledger, wallet and checkout/settlement of the dashboard app        *)
(* (src/dashboard/views.py, src/dashboard/models.py).                      *)
(*                                                                         *)
(* Every request handler runs in its own request slot.  A handler is cut   *)
(* at its database statements: outside transaction.atomic() every          *)
(* statement commits on its own, inside it the writes are collected in     *)
(* tx[p] and become visible together at commit (or never, on rollback).    *)
(* Money is counted in units of the smallest amount a DecimalField with    *)
(* decimal_places=2 stores; a Decimal parsed from a form field is counted  *)
(* in tenths of that unit, the next decimal place.                         *)
(***************************************************************************)
EXTENDS Integers, FiniteSets, Sequences, TLC

\* ---------------------------------------------------------------- bounds
NProcs == 2            \* request slots that can be in flight together
MaxReq == 4            \* requests served in one behaviour

Procs    == 1..NProcs
NoProc   == 0
MaxAccounts == 4       \* Account rows ever created (the id sequence stops)
AccountIds == 1..MaxAccounts
Accounts == {1}        \* the account whose session sends the shop requests
AdminId  == 2          \* the administrator's own account
Products == {1, 2}

\* inputs submitted with the requests
\* wallet_topup amount as typed: blank, not a number, negative, zero, a
\* whole number of units (padded), a fraction of a unit
RawAmounts == {<<>>, <<"x">>, <<"-", "1">>, <<"0">>, <<" ", "3">>,
               <<"0", ".", "4">>}
EditPrices == {0, 2}                        \* admin_product_edit price
EditNames  == {"", "X"}                     \* admin_product_edit name, trimmed
Balances   == {-1, 0, 3}                    \* admin_user_edit balance
RawFields  == {<<>>, <<" ">>, <<" ", "A">>} \* checkout receiver field
\* mutant of Statuses: a status outside the four is allowed too
StatusesWithShipped == {"PAID", "PENDING", "FAILED", "CANCELLED", "SHIPPED"}
\* admin_order_update_status, line 775: the allowed statuses
Statuses   == {"PAID", "PENDING", "FAILED", "CANCELLED"}
EditImages == {"", "new.png"}
RegNames   == {"user", "new"}               \* to_register_page username
\* admin_user_create username and e-mail (local part; blank: the default)
CreateForms == {[username |-> "", email |-> ""],
                [username |-> "new", email |-> ""],
                [username |-> "x", email |-> "new"]}
StatusInputs == {"CANCELLED", "SHIPPED"}    \* admin_order_update_status

VARIABLES
    product,        \* Product rows: [Products -> [exists, product_name, price]]
    cartItem,       \* CartItem rows: set of [id, cart, product, quantity]
    cartQuantity,   \* Cart.quantity of each account's cart
    walletBalance,  \* Wallet.balance of each account's wallet
    account,        \* Account rows by id, with the e-mail of the profile
    cartRows,       \* number of Cart rows of each account
    walletRows,     \* number of Wallet rows of each account
    nextAccountId,  \* AutoField sequence of Account
    walletLock,     \* holder of the row lock on each wallet (NoProc: free)
    order,          \* Order rows
    orderItem,      \* OrderItem rows
    nextCartItemId, nextOrderId, nextOrderItemId,   \* AutoField sequences
    pc,             \* position of each request slot in its handler
    acct,           \* account the request in the slot is made for
    product_id,     \* handler argument of the cart requests (NoProduct: none)
    item,           \* handler local: the CartItem found by .first()
    cart_items,     \* handler local: evaluated queryset of checkout
    total,          \* handler local: total of checkout / sum of _recalc /
                    \* amount of wallet_topup in tenths of a unit
    balance,        \* handler local: wallet.balance as read / as submitted
    receiver,       \* handler local: trimmed receiver fields of checkout
    form,           \* handler local: the fields of the account form
    tx,             \* writes of the open transaction of the slot
    resp,           \* what the last request in the slot answered
    started,        \* requests served so far
    credited,       \* history: sum of the top-ups committed per account
    accepted,       \* history: sum of the amounts of the top-ups accepted,
                    \* in tenths of a unit
    debited         \* history: sum of the checkout debits committed per account

dbVars    == <<product, cartItem, cartQuantity, walletBalance, order, orderItem,
               nextCartItemId, nextOrderId, nextOrderItemId>>
localVars == <<product_id, item, cart_items, total, balance, receiver, form>>
userVars  == <<account, cartRows, walletRows, nextAccountId>>
histVars  == <<credited, accepted, debited>>
vars      == <<dbVars, userVars, walletLock, pc, acct, localVars, tx, resp,
               started, histVars>>

\* ---------------------------------------------------------------- helpers
InitialBalance == 0     \* Wallet.objects.create(account, balance=Decimal("0"))
NoProduct == 0
\* get_or_create(account=a): one row is inserted when there is none
GetOrCreate(rows, a) == IF rows[a] = 0 THEN [rows EXCEPT ![a] = 1] ELSE rows
NoItem == [id |-> 0]
NoAccount == [exists |-> FALSE, username |-> "", email |-> "", status |-> ""]
NoForm == [username |-> "", email |-> ""]
ToUsers == [kind |-> "Redirect", to |-> "admin_users"]
ToLogin == [kind |-> "Redirect", to |-> "to_login_page"]
NoTx   == [wallet |-> FALSE, balance |-> 0, orders |-> {}, items |-> {}]
IntegrityError == [kind |-> "ServerError", error |-> "IntegrityError"]
ToOrderDetail == [kind |-> "Redirect", to |-> "admin_order_detail"]
NoResp == [kind |-> "none"]

\* mutant of SumQuantity: Count("id") in place of Sum("quantity")
CountRows(rows) == Cardinality(rows)

RECURSIVE SumQuantity(_)
\* Sum("quantity") over a set of CartItem rows
SumQuantity(rows) ==
    IF rows = {} THEN 0
    ELSE LET r == CHOOSE x \in rows : TRUE
         IN  r.quantity + SumQuantity(rows \ {r})

RECURSIVE SumSubtotal(_)
\* total += item.product.price * item.quantity over an evaluated queryset
SumSubtotal(rows) ==
    IF rows = {} THEN 0
    ELSE LET r == CHOOSE x \in rows : TRUE
         IN  r.price * r.quantity + SumSubtotal(rows \ {r})

\* CartItem.objects.filter(cart=cart)
CartRows(a) == {r \in cartItem : r.cart = a}

\* CartItem.objects.filter(cart=cart, product=product).first()
FirstItem(a, prod) ==
    LET rows == {r \in CartRows(a) : r.product = prod}
    IN  IF rows = {} THEN NoItem
        ELSE CHOOSE r \in rows : \A s \in rows : r.id <= s.id

\* the row with this primary key is still in the table
RowExists(id) == \E r \in cartItem : r.id = id

\* UPDATE ... SET quantity = q WHERE id = id
SetRowQuantity(id, q) ==
    {IF r.id = id THEN [r EXCEPT !.quantity = q] ELSE r : r \in cartItem}

\* a request is accepted into the lowest free slot while the behaviour has
\* room for it
Accept(p) ==
    /\ pc[p] = "idle"
    /\ \A q \in Procs : q < p => pc[q] # "idle"
    /\ started < MaxReq

\* the handler returns: the slot is free again and its locals are dropped
Finish(p, answer) ==
    /\ pc' = [pc EXCEPT ![p] = "idle"]
    /\ resp' = [resp EXCEPT ![p] = answer]
    /\ product_id' = [product_id EXCEPT ![p] = NoProduct]
    /\ item' = [item EXCEPT ![p] = NoItem]
    /\ cart_items' = [cart_items EXCEPT ![p] = {}]
    /\ total' = [total EXCEPT ![p] = 0]
    /\ balance' = [balance EXCEPT ![p] = 0]
    /\ receiver' = [receiver EXCEPT ![p] = <<>>]
    /\ form' = [form EXCEPT ![p] = NoForm]

Begin(p, a) ==
    /\ Accept(p)
    /\ started' = started + 1
    /\ acct' = [acct EXCEPT ![p] = a]

Init ==
    /\ product = [i \in Products |->
                    [exists |-> TRUE, product_name |-> <<"P1", "P2">>[i], price |-> i,
                     image |-> <<"p1.png", "p2.png">>[i]]]
    /\ cartItem = {}
    /\ cartQuantity = [a \in Accounts |-> 0]
    /\ walletBalance = [a \in AccountIds |-> InitialBalance]
    /\ account = [a \in AccountIds |->
                    IF a = AdminId
                    THEN [exists |-> TRUE, username |-> "admin",
                          email |-> "admin", status |-> "normal"]
                    ELSE IF a \in Accounts
                    THEN [exists |-> TRUE, username |-> "user",
                          email |-> "user", status |-> "normal"]
                    ELSE NoAccount]
    /\ cartRows = [a \in AccountIds |-> IF a \in Accounts \cup {AdminId} THEN 1 ELSE 0]
    /\ walletRows = [a \in AccountIds |-> IF a \in Accounts \cup {AdminId} THEN 1 ELSE 0]
    /\ nextAccountId = 3
    /\ walletLock = [a \in AccountIds |-> NoProc]
    /\ order = {}
    /\ orderItem = {}
    /\ nextCartItemId = 1
    /\ nextOrderId = 1
    /\ nextOrderItemId = 1
    /\ pc = [p \in Procs |-> "idle"]
    /\ acct = [p \in Procs |-> CHOOSE a \in Accounts : TRUE]
    /\ product_id = [p \in Procs |-> NoProduct]
    /\ item = [p \in Procs |-> NoItem]
    /\ cart_items = [p \in Procs |-> {}]
    /\ total = [p \in Procs |-> 0]
    /\ balance = [p \in Procs |-> 0]
    /\ receiver = [p \in Procs |-> <<>>]
    /\ form = [p \in Procs |-> NoForm]
    /\ tx = [p \in Procs |-> NoTx]
    /\ resp = [p \in Procs |-> NoResp]
    /\ started = 0
    /\ credited = [a \in Accounts |-> 0]
    /\ accepted = [a \in Accounts |-> 0]
    /\ debited = [a \in Accounts |-> 0]

\* ------------------------------------------------------------ cart ledger
\* add_to_cart / cart_inc, lines 424-427: look the product and the line up
AddFind(p) ==
    \E a \in Accounts, prod \in Products :
        /\ Begin(p, a)
        /\ IF ~account[a].exists
           THEN /\ Finish(p, ToLogin)
                /\ UNCHANGED cartRows
           ELSE IF ~product[prod].exists
           THEN /\ Finish(p, [kind |-> "NotFound"])
                /\ UNCHANGED cartRows
           ELSE /\ cartRows' = GetOrCreate(cartRows, a)
                /\ pc' = [pc EXCEPT ![p] = "add_write"]
                /\ resp' = [resp EXCEPT ![p] = NoResp]
                /\ item' = [item EXCEPT ![p] =
                              IF FirstItem(a, prod) = NoItem
                              THEN [id |-> 0, product |-> prod]
                              ELSE FirstItem(a, prod)]
                /\ product_id' = [product_id EXCEPT ![p] = prod]
                /\ UNCHANGED <<cart_items, total, balance, receiver, form>>
        /\ UNCHANGED <<dbVars, walletLock, tx, histVars>>
        /\ UNCHANGED <<account, walletRows, nextAccountId>>

\* add_to_cart, lines 428-432: increment the line found or create one
AddWrite(p) ==
    /\ pc[p] = "add_write"
    /\ IF item[p].id # 0
       THEN IF RowExists(item[p].id)
            THEN \* item.save(update_fields=["quantity"])
                 /\ cartItem' = SetRowQuantity(item[p].id, item[p].quantity + 1)
                 /\ pc' = [pc EXCEPT ![p] = "recalc_sum"]
                 /\ UNCHANGED <<nextCartItemId, resp, localVars>>
            ELSE \* the UPDATE matched no row: DatabaseError
                 /\ Finish(p, [kind |-> "ServerError"])
                 /\ UNCHANGED <<cartItem, nextCartItemId>>
       ELSE IF product[item[p].product].exists /\ cartRows[acct[p]] > 0
            THEN \* CartItem.objects.create(cart, product, quantity=1)
                 /\ cartItem' = cartItem \cup
                       {[id |-> nextCartItemId, cart |-> acct[p],
                         product |-> item[p].product, quantity |-> 1]}
                 /\ nextCartItemId' = nextCartItemId + 1
                 /\ pc' = [pc EXCEPT ![p] = "recalc_sum"]
                 /\ UNCHANGED <<resp, localVars>>
            ELSE \* the product row or the cart row is gone: IntegrityError
                 \* on the foreign key
                 /\ Finish(p, [kind |-> "ServerError"])
                 /\ UNCHANGED <<cartItem, nextCartItemId>>
    /\ UNCHANGED <<product, cartQuantity, walletBalance, order, orderItem,
                   nextOrderId, nextOrderItemId, walletLock, acct, tx,
                   started, histVars>>
    /\ UNCHANGED userVars

\* cart_dec, lines 457-460: look the cart, the product and the line up
DecFind(p) ==
    \E a \in Accounts, prod \in Products :
        /\ Begin(p, a)
        /\ IF ~account[a].exists
           THEN /\ Finish(p, ToLogin)
           ELSE IF cartRows[a] = 0 \/ ~product[prod].exists
           THEN /\ Finish(p, [kind |-> "NotFound"])
           ELSE /\ pc' = [pc EXCEPT ![p] = "dec_write"]
                /\ resp' = [resp EXCEPT ![p] = NoResp]
                /\ item' = [item EXCEPT ![p] = FirstItem(a, prod)]
                /\ product_id' = [product_id EXCEPT ![p] = prod]
                /\ UNCHANGED <<cart_items, total, balance, receiver, form>>
        /\ UNCHANGED <<dbVars, walletLock, tx, histVars>>
        /\ UNCHANGED userVars

\* mutant of DecWrite: the line is deleted below zero only ("< 0")
DecWriteKeepsZero(p) ==
    /\ pc[p] = "dec_write"
    /\ IF item[p] = NoItem
       THEN /\ pc' = [pc EXCEPT ![p] = "recalc_sum"]
            /\ UNCHANGED <<cartItem, resp, localVars>>
       ELSE IF item[p].quantity - 1 < 0
            THEN /\ cartItem' = {r \in cartItem : r.id # item[p].id}
                 /\ pc' = [pc EXCEPT ![p] = "recalc_sum"]
                 /\ UNCHANGED <<resp, localVars>>
            ELSE IF RowExists(item[p].id)
                 THEN /\ cartItem' = SetRowQuantity(item[p].id, item[p].quantity - 1)
                      /\ pc' = [pc EXCEPT ![p] = "recalc_sum"]
                      /\ UNCHANGED <<resp, localVars>>
                 ELSE /\ Finish(p, [kind |-> "ServerError"])
                      /\ UNCHANGED cartItem
    /\ UNCHANGED <<product, cartQuantity, walletBalance, order, orderItem,
                   nextCartItemId, nextOrderId, nextOrderItemId, walletLock,
                   acct, tx, started, histVars>>
    /\ UNCHANGED userVars

\* cart_dec, lines 461-466: decrement the line, delete it at zero
DecWrite(p) ==
    /\ pc[p] = "dec_write"
    /\ IF item[p] = NoItem
       THEN /\ pc' = [pc EXCEPT ![p] = "recalc_sum"]
            /\ UNCHANGED <<cartItem, resp, localVars>>
       ELSE IF item[p].quantity - 1 <= 0
            THEN \* item.delete()
                 /\ cartItem' = {r \in cartItem : r.id # item[p].id}
                 /\ pc' = [pc EXCEPT ![p] = "recalc_sum"]
                 /\ UNCHANGED <<resp, localVars>>
            ELSE IF RowExists(item[p].id)
                 THEN /\ cartItem' = SetRowQuantity(item[p].id, item[p].quantity - 1)
                      /\ pc' = [pc EXCEPT ![p] = "recalc_sum"]
                      /\ UNCHANGED <<resp, localVars>>
                 ELSE /\ Finish(p, [kind |-> "ServerError"])
                      /\ UNCHANGED cartItem
    /\ UNCHANGED <<product, cartQuantity, walletBalance, order, orderItem,
                   nextCartItemId, nextOrderId, nextOrderItemId, walletLock,
                   acct, tx, started, histVars>>
    /\ UNCHANGED userVars

\* cart_remove, lines 481-482: delete the lines of the product id
RemoveDelete(p) ==
    \E a \in Accounts, prod \in Products :
        /\ Begin(p, a)
        /\ IF ~account[a].exists
           THEN /\ Finish(p, ToLogin)
                /\ UNCHANGED cartItem
           ELSE IF cartRows[a] = 0
           THEN /\ Finish(p, [kind |-> "NotFound"])
                /\ UNCHANGED cartItem
           ELSE /\ cartItem' = {r \in cartItem :
                                   ~(r.cart = a /\ r.product = prod)}
                /\ pc' = [pc EXCEPT ![p] = "recalc_sum"]
                /\ resp' = [resp EXCEPT ![p] = NoResp]
                /\ product_id' = [product_id EXCEPT ![p] = prod]
                /\ UNCHANGED <<item, cart_items, total, balance, receiver,
                               form>>
        /\ UNCHANGED <<product, cartQuantity, walletBalance, order, orderItem,
                       nextCartItemId, nextOrderId, nextOrderItemId,
                       walletLock, tx, histVars>>
        /\ UNCHANGED userVars

\* _recalc_cart_quantity, line 62: aggregate the cart's lines
RecalcSum(p) ==
    /\ pc[p] = "recalc_sum"
    /\ total' = [total EXCEPT ![p] = SumQuantity(CartRows(acct[p]))]
    /\ pc' = [pc EXCEPT ![p] = "recalc_save"]
    /\ UNCHANGED <<dbVars, walletLock, acct, product_id, item, cart_items, balance,
                   receiver, form, tx, resp, started, histVars>>
    /\ UNCHANGED userVars

\* _recalc_cart_quantity, line 63: cart.save(update_fields=["quantity"])
RecalcSave(p) ==
    /\ pc[p] = "recalc_save"
    /\ IF cartRows[acct[p]] > 0
       THEN /\ cartQuantity' = [cartQuantity EXCEPT ![acct[p]] = total[p]]
            /\ Finish(p, [kind |-> "Redirect"])
       ELSE \* the UPDATE matched no row: DatabaseError
            /\ Finish(p, [kind |-> "ServerError"])
            /\ UNCHANGED cartQuantity
    /\ UNCHANGED <<product, cartItem, walletBalance, order, orderItem,
                   nextCartItemId, nextOrderId, nextOrderItemId, walletLock,
                   acct, tx, started, histVars>>
    /\ UNCHANGED userVars

\* ------------------------------------------------------ checkout / wallet
RECURSIVE Strip(_)
\* str.strip(): drop the blanks at both ends
Strip(s) ==
    IF s = <<>> THEN s
    ELSE IF Head(s) = " " THEN Strip(Tail(s))
    ELSE IF s[Len(s)] = " " THEN Strip(SubSeq(s, 1, Len(s) - 1))
    ELSE s

\* mutant of EvalCartItems: the price is the list price the product had
\* when the shop opened, not the one of the product row now
EvalCartItemsListPrice(a) ==
    {[id |-> r.id, product |-> r.product, quantity |-> r.quantity,
      price |-> r.product,
      product_name |-> product[r.product].product_name,
      image |-> product[r.product].image] : r \in CartRows(a)}

\* CartItem.objects.filter(cart=cart).select_related("product"), evaluated:
\* every line comes with the product row it joins at that instant
EvalCartItems(a) ==
    {[id |-> r.id, product |-> r.product, quantity |-> r.quantity,
      price |-> product[r.product].price,
      product_name |-> product[r.product].product_name,
      image |-> product[r.product].image] : r \in CartRows(a)}

\* to_view_cart, lines 398-412: the lines with their subtotals and the total
ViewCart(p) ==
    \E a \in Accounts :
        /\ Begin(p, a)
        /\ IF ~account[a].exists
           THEN Finish(p, ToLogin)
           ELSE IF cartRows[a] = 0
           THEN Finish(p, [kind |-> "NotFound"])
           ELSE Finish(p, [kind |-> "Cart",
                           cart_total |-> SumSubtotal(EvalCartItems(a))])
        /\ UNCHANGED <<dbVars, userVars, walletLock, tx, histVars>>

\* mutant of LockFree: the wallet is read without select_for_update()
LockIgnored(a) == TRUE

\* Wallet.objects.select_for_update(): the row lock is free
LockFree(a) == walletLock[a] = NoProc

\* mutant of NewOrderItems: quantity is not passed and takes its default 1
NewOrderItemsDefaultQuantity(rows, oid, firstId) ==
    {[id |-> firstId + Cardinality({s \in rows : s.id < r.id}),
      order |-> oid, product |-> r.product, product_name |-> r.product_name,
      unit_price |-> r.price, quantity |-> 1,
      product_image_name |-> r.image, cart_item |-> r.id] : r \in rows}

\* the OrderItem rows created from an evaluated queryset for an order
\* (cart_item is history: the CartItem the row was copied from)
NewOrderItems(rows, oid, firstId) ==
    {[id |-> firstId + Cardinality({s \in rows : s.id < r.id}),
      order |-> oid, product |-> r.product, product_name |-> r.product_name,
      unit_price |-> r.price, quantity |-> r.quantity,
      product_image_name |-> r.image, cart_item |-> r.id] : r \in rows}

\* mutant of Rollback: no transaction.atomic(), the wallet write made before
\* the exception stays
RollbackKeepsDebit(p) ==
    /\ tx' = [tx EXCEPT ![p] = NoTx]
    /\ walletLock' = [walletLock EXCEPT ![acct[p]] = NoProc]
    /\ walletBalance' = [walletBalance EXCEPT ![acct[p]] =
                            IF tx[p].wallet THEN tx[p].balance ELSE @]
    /\ debited' = [debited EXCEPT ![acct[p]] =
                      IF tx[p].wallet
                      THEN @ + (walletBalance[acct[p]] - tx[p].balance) ELSE @]
    /\ UNCHANGED <<product, cartItem, cartQuantity, order, orderItem, credited,
                   accepted>>

\* leaving transaction.atomic() after an exception: every write is dropped
Rollback(p) ==
    /\ tx' = [tx EXCEPT ![p] = NoTx]
    /\ walletLock' = [walletLock EXCEPT ![acct[p]] = NoProc]
    /\ UNCHANGED <<product, cartItem, cartQuantity, walletBalance, order,
                   orderItem, histVars>>

\* mutant of CheckoutRead: the receiver fields are validated before the total
CheckoutReadReceiverFirst(p) ==
    \E a \in Accounts, rn \in RawFields, rp \in RawFields, ra \in RawFields :
        /\ Begin(p, a)
        /\ IF ~account[a].exists
           THEN Finish(p, ToLogin)
           ELSE IF cartRows[a] = 0
           THEN Finish(p, [kind |-> "NotFound"])
           ELSE IF Strip(rn) = <<>> \/ Strip(rp) = <<>> \/ Strip(ra) = <<>>
           THEN Finish(p, [kind |-> "InvalidInput"])
           ELSE IF SumSubtotal(EvalCartItems(a)) <= 0
           THEN Finish(p, [kind |-> "EmptyCart"])
           ELSE /\ pc' = [pc EXCEPT ![p] = "co_lock"]
                /\ resp' = [resp EXCEPT ![p] = NoResp]
                /\ cart_items' = [cart_items EXCEPT ![p] = EvalCartItems(a)]
                /\ total' = [total EXCEPT ![p] = SumSubtotal(EvalCartItems(a))]
                /\ receiver' = [receiver EXCEPT ![p] =
                                   <<Strip(rn), Strip(rp), Strip(ra)>>]
                /\ UNCHANGED <<product_id, item, balance, form>>
        /\ UNCHANGED <<dbVars, walletLock, tx, histVars>>
        /\ UNCHANGED userVars

\* checkout, lines 574-608: read the cart, compute the total, validate
CheckoutRead(p) ==
    \E a \in Accounts, rn \in RawFields, rp \in RawFields, ra \in RawFields :
        /\ Begin(p, a)
        /\ IF ~account[a].exists
           THEN Finish(p, ToLogin)
           ELSE IF cartRows[a] = 0
           THEN Finish(p, [kind |-> "NotFound"])
           ELSE IF SumSubtotal(EvalCartItems(a)) <= 0
           THEN Finish(p, [kind |-> "EmptyCart"])
           ELSE IF Strip(rn) = <<>> \/ Strip(rp) = <<>> \/ Strip(ra) = <<>>
           THEN Finish(p, [kind |-> "InvalidInput"])
           ELSE /\ pc' = [pc EXCEPT ![p] = "co_lock"]
                /\ resp' = [resp EXCEPT ![p] = NoResp]
                /\ cart_items' = [cart_items EXCEPT ![p] = EvalCartItems(a)]
                /\ total' = [total EXCEPT ![p] = SumSubtotal(EvalCartItems(a))]
                /\ receiver' = [receiver EXCEPT ![p] =
                                   <<Strip(rn), Strip(rp), Strip(ra)>>]
                /\ UNCHANGED <<product_id, item, balance, form>>
        /\ UNCHANGED <<dbVars, walletLock, tx, histVars>>
        /\ UNCHANGED userVars

\* mutant of CheckoutLock: the balance is not compared with the total
CheckoutLockUnchecked(p) ==
    /\ pc[p] = "co_lock"
    /\ LockFree(acct[p])
    /\ walletLock' = [walletLock EXCEPT ![acct[p]] = p]
    /\ balance' = [balance EXCEPT ![p] = walletBalance[acct[p]]]
    /\ pc' = [pc EXCEPT ![p] = "co_debit"]
    /\ UNCHANGED <<resp, product_id, item, cart_items, total, receiver, form>>
    /\ UNCHANGED <<dbVars, acct, tx, started, histVars>>
    /\ UNCHANGED userVars

\* checkout, lines 611-614: lock the wallet row and compare the balance
CheckoutLock(p) ==
    /\ pc[p] = "co_lock"
    /\ LockFree(acct[p])
    /\ IF walletRows[acct[p]] = 0
       THEN \* Wallet.DoesNotExist leaves the view unhandled
            /\ Finish(p, [kind |-> "ServerError"])
            /\ UNCHANGED walletLock
       ELSE IF walletBalance[acct[p]] < total[p]
       THEN /\ Finish(p, [kind |-> "InsufficientFunds",
                          balance |-> walletBalance[acct[p]]])
            /\ UNCHANGED walletLock
       ELSE /\ walletLock' = [walletLock EXCEPT ![acct[p]] = p]
            /\ balance' = [balance EXCEPT ![p] = walletBalance[acct[p]]]
            /\ pc' = [pc EXCEPT ![p] = "co_debit"]
            /\ UNCHANGED <<resp, product_id, item, cart_items, total, receiver, form>>
    /\ UNCHANGED <<dbVars, acct, tx, started, histVars>>
    /\ UNCHANGED userVars

\* checkout, lines 616-617: wallet.balance = wallet.balance - total; save
CheckoutDebit(p) ==
    /\ pc[p] = "co_debit"
    /\ tx' = [tx EXCEPT ![p].wallet = TRUE, ![p].balance = balance[p] - total[p]]
    /\ pc' = [pc EXCEPT ![p] = "co_order"]
    /\ UNCHANGED <<dbVars, walletLock, acct, localVars, resp, started, histVars>>
    /\ UNCHANGED userVars

\* checkout, lines 619-626: Order.objects.create(...)
CheckoutOrder(p) ==
    /\ pc[p] = "co_order"
    /\ tx' = [tx EXCEPT ![p].orders =
                {[order_id |-> nextOrderId, account |-> acct[p],
                  total_amount |-> total[p], status |-> "PAID",
                  receiver_name |-> receiver[p][1],
                  receiver_phone |-> receiver[p][2],
                  receiver_address |-> receiver[p][3]]}]
    /\ nextOrderId' = nextOrderId + 1
    /\ pc' = [pc EXCEPT ![p] = "co_items"]
    /\ UNCHANGED <<product, cartItem, cartQuantity, walletBalance, order,
                   orderItem, nextCartItemId, nextOrderItemId, walletLock,
                   acct, localVars, resp, started, histVars>>
    /\ UNCHANGED userVars

\* mutant of CheckoutItems: the queryset is evaluated again for the order
\* lines instead of reusing the rows the total was computed from
CheckoutItemsRequery(p) ==
    /\ pc[p] = "co_items"
    /\ IF \A r \in EvalCartItems(acct[p]) : product[r.product].exists
       THEN /\ tx' = [tx EXCEPT ![p].items =
                        NewOrderItems(EvalCartItems(acct[p]), nextOrderId - 1,
                                      nextOrderItemId)]
            /\ nextOrderItemId' = nextOrderItemId + Cardinality(EvalCartItems(acct[p]))
            /\ pc' = [pc EXCEPT ![p] = "co_clear"]
            /\ UNCHANGED <<product, cartItem, cartQuantity, walletBalance,
                           order, orderItem, walletLock, resp, localVars,
                           histVars>>
       ELSE \* a product row is gone: IntegrityError on the foreign key
            /\ Rollback(p)
            /\ Finish(p, IntegrityError)
            /\ UNCHANGED nextOrderItemId
    /\ UNCHANGED <<nextCartItemId, nextOrderId, acct, started>>
    /\ UNCHANGED userVars

\* checkout, lines 629-638: one OrderItem per line of the evaluated queryset
CheckoutItems(p) ==
    /\ pc[p] = "co_items"
    /\ IF \A r \in cart_items[p] : product[r.product].exists
       THEN /\ tx' = [tx EXCEPT ![p].items =
                        NewOrderItems(cart_items[p], nextOrderId - 1,
                                      nextOrderItemId)]
            /\ nextOrderItemId' = nextOrderItemId + Cardinality(cart_items[p])
            /\ pc' = [pc EXCEPT ![p] = "co_clear"]
            /\ UNCHANGED <<product, cartItem, cartQuantity, walletBalance,
                           order, orderItem, walletLock, resp, localVars,
                           histVars>>
       ELSE \* a product row is gone: IntegrityError on the foreign key
            /\ Rollback(p)
            /\ Finish(p, IntegrityError)
            /\ UNCHANGED nextOrderItemId
    /\ UNCHANGED <<nextCartItemId, nextOrderId, acct, started>>
    /\ UNCHANGED userVars

\* checkout, lines 640-644: clear the cart and commit the transaction
\* (a foreign key checked at commit finds the product row gone: the commit
\* raises IntegrityError and the transaction is rolled back)
CheckoutCommit(p) ==
    /\ pc[p] = "co_clear"
    /\ IF \A i \in tx[p].items : product[i.product].exists
       THEN /\ walletBalance' = [walletBalance EXCEPT
                                   ![acct[p]] = tx[p].balance]
            /\ order' = order \cup tx[p].orders
            /\ orderItem' = orderItem \cup tx[p].items
            /\ cartItem' = cartItem \ CartRows(acct[p])
            /\ cartQuantity' = [cartQuantity EXCEPT ![acct[p]] = 0]
            /\ debited' = [debited EXCEPT ![acct[p]] =
                              @ + (walletBalance[acct[p]] - tx[p].balance)]
            /\ tx' = [tx EXCEPT ![p] = NoTx]
            /\ walletLock' = [walletLock EXCEPT ![acct[p]] = NoProc]
            /\ Finish(p, [kind |-> "Order", order_id |-> nextOrderId - 1])
            /\ UNCHANGED <<product, credited, accepted>>
       ELSE /\ Rollback(p)
            /\ Finish(p, IntegrityError)
    /\ UNCHANGED <<nextCartItemId, nextOrderId, nextOrderItemId,
                   acct, started>>
    /\ UNCHANGED userVars

\* a statement of the atomic section raises (the database refuses or is lost)
CheckoutAbort(p) ==
    /\ pc[p] \in {"co_debit", "co_order", "co_items", "co_clear"}
    /\ Rollback(p)
    /\ Finish(p, [kind |-> "ServerError"])
    /\ UNCHANGED <<nextCartItemId, nextOrderId, nextOrderItemId, acct, started>>
    /\ UNCHANGED userVars

Digits == <<"0", "1", "2", "3", "4", "5", "6", "7", "8", "9">>

RECURSIVE DigitsValue(_)
\* the number written by a sequence of decimal digits
DigitsValue(s) ==
    IF s = <<>> THEN 0
    ELSE 10 * DigitsValue(SubSeq(s, 1, Len(s) - 1))
         + (CHOOSE d \in 0..9 : Digits[d + 1] = s[Len(s)])

\* _to_decimal, lines 66-73: Decimal(str(val).strip()), Decimal("0") when
\* that raises; the value is returned in tenths of a unit.  Read are an
\* optional sign, digits and at most one digit after the point.
ToDecimal(val) ==
    LET s      == Strip(val)
        signed == s # <<>> /\ Head(s) \in {"-", "+"}
        body   == IF signed THEN Tail(s) ELSE s
        sign   == IF signed /\ Head(s) = "-" THEN -1 ELSE 1
        dots   == {i \in 1..Len(body) : body[i] = "."}
        whole  == IF dots = {} THEN body
                  ELSE SubSeq(body, 1, (CHOOSE i \in dots : TRUE) - 1)
        frac   == IF dots = {} THEN <<>>
                  ELSE SubSeq(body, (CHOOSE i \in dots : TRUE) + 1, Len(body))
        isNum  == /\ Cardinality(dots) <= 1
                  /\ Len(whole) + Len(frac) > 0
                  /\ Len(frac) <= 1
                  /\ \A i \in 1..Len(whole) : \E d \in 1..10 : Digits[d] = whole[i]
                  /\ \A i \in 1..Len(frac) : \E d \in 1..10 : Digits[d] = frac[i]
    IN  IF isNum
        THEN sign * (10 * DigitsValue(whole)
                     + (IF frac = <<>> THEN 0 ELSE DigitsValue(frac)))
        ELSE 0

\* Wallet.balance, models.py line 26: DecimalField(decimal_places=2).  A
\* value in tenths of a unit is stored rounded to whole units; which way a
\* tie goes depends on the database backend.
Quantize(tenths) ==
    LET q == tenths \div 10
        r == tenths % 10
    IN  IF r < 5 THEN {q} ELSE IF r > 5 THEN {q + 1} ELSE {q, q + 1}

\* mutant of TopupLock: the amount is not required to be positive
TopupLockAnyAmount(p) ==
    \E a \in Accounts, raw \in RawAmounts :
        /\ Begin(p, a)
        /\ LockFree(a)
        /\ walletLock' = [walletLock EXCEPT ![a] = p]
        /\ balance' = [balance EXCEPT ![p] = walletBalance[a]]
        /\ total' = [total EXCEPT ![p] = ToDecimal(raw)]
        /\ pc' = [pc EXCEPT ![p] = "tu_save"]
        /\ resp' = [resp EXCEPT ![p] = NoResp]
        /\ UNCHANGED <<product_id, item, cart_items, receiver, form>>
        /\ UNCHANGED <<dbVars, tx, histVars>>
        /\ UNCHANGED userVars

\* wallet_topup, lines 696-705: parse the amount, lock the wallet row
TopupLock(p) ==
    \E a \in Accounts, raw \in RawAmounts :
        /\ Begin(p, a)
        /\ IF ~account[a].exists
           THEN /\ Finish(p, ToLogin)
                /\ UNCHANGED <<walletLock, walletRows>>
           ELSE IF ToDecimal(raw) <= 0
           THEN /\ Finish(p, [kind |-> "InvalidAmount"])
                /\ walletRows' = GetOrCreate(walletRows, a)
                /\ UNCHANGED walletLock
           ELSE /\ LockFree(a)
                /\ walletRows' = GetOrCreate(walletRows, a)
                /\ walletLock' = [walletLock EXCEPT ![a] = p]
                /\ balance' = [balance EXCEPT ![p] = walletBalance[a]]
                /\ total' = [total EXCEPT ![p] = ToDecimal(raw)]
                /\ pc' = [pc EXCEPT ![p] = "tu_save"]
                /\ resp' = [resp EXCEPT ![p] = NoResp]
                /\ UNCHANGED <<product_id, item, cart_items, receiver, form>>
        /\ UNCHANGED <<dbVars, tx, histVars>>
        /\ UNCHANGED <<account, cartRows, nextAccountId>>

\* wallet_topup, lines 706-709: wallet.balance = wallet.balance + amount; save
TopupSave(p) ==
    /\ pc[p] = "tu_save"
    /\ \E stored \in Quantize(10 * balance[p] + total[p]) :
        /\ walletBalance' = [walletBalance EXCEPT ![acct[p]] = stored]
        /\ credited' = [credited EXCEPT ![acct[p]] = @ + (stored - balance[p])]
    /\ accepted' = [accepted EXCEPT ![acct[p]] = @ + total[p]]
    /\ walletLock' = [walletLock EXCEPT ![acct[p]] = NoProc]
    /\ Finish(p, [kind |-> "Redirect"])
    /\ UNCHANGED <<product, cartItem, cartQuantity, order, orderItem,
                   nextCartItemId, nextOrderId, nextOrderItemId, acct, tx,
                   started, debited>>
    /\ UNCHANGED userVars

\* ---------------------------------------------------------------- accounts
\* Account.username is unique
UsernameTaken(name) ==
    \E b \in AccountIds : account[b].exists /\ account[b].username = name

\* AccountProfile.email is unique
EmailTaken(email) ==
    \E b \in AccountIds : account[b].exists /\ account[b].email = email

\* creations that passed their checks and have not yet run their inserts
Creating == {q \in Procs : pc[q] \in {"reg_create", "uc_create"}}

\* to_register_page, lines 526-538: compare the passwords, look the name up
RegisterCheck(p) ==
    \E username \in RegNames, confirmed \in BOOLEAN :
        /\ Accept(p)
        /\ nextAccountId + Cardinality(Creating) <= MaxAccounts
        /\ started' = started + 1
        /\ IF ~confirmed \/ UsernameTaken(username)
           THEN Finish(p, [kind |-> "InvalidInput"])
           ELSE /\ form' = [form EXCEPT ![p] =
                              [username |-> username, email |-> username]]
                /\ pc' = [pc EXCEPT ![p] = "reg_create"]
                /\ resp' = [resp EXCEPT ![p] = NoResp]
                /\ UNCHANGED <<product_id, item, cart_items, total, balance,
                               receiver>>
        /\ UNCHANGED <<dbVars, userVars, walletLock, acct, tx, histVars>>

\* mutant of RegisterCreate: no transaction.atomic(), the Account inserted
\* before the profile fails stays
RegisterCreateNoAtomic(p) ==
    /\ pc[p] = "reg_create"
    /\ IF UsernameTaken(form[p].username)
       THEN /\ Finish(p, IntegrityError)
            /\ UNCHANGED <<walletBalance, userVars>>
       ELSE IF EmailTaken(form[p].email)
       THEN /\ account' = [account EXCEPT ![nextAccountId] =
                             [exists |-> TRUE, username |-> form[p].username,
                              email |-> "", status |-> "normal"]]
            /\ nextAccountId' = nextAccountId + 1
            /\ Finish(p, IntegrityError)
            /\ UNCHANGED <<walletBalance, cartRows, walletRows>>
       ELSE /\ account' = [account EXCEPT ![nextAccountId] =
                             [exists |-> TRUE, username |-> form[p].username,
                              email |-> form[p].email, status |-> "normal"]]
            /\ cartRows' = [cartRows EXCEPT ![nextAccountId] = 1]
            /\ walletRows' = [walletRows EXCEPT ![nextAccountId] = 1]
            /\ walletBalance' = [walletBalance EXCEPT
                                   ![nextAccountId] = InitialBalance]
            /\ nextAccountId' = nextAccountId + 1
            /\ Finish(p, [kind |-> "Registered"])
    /\ UNCHANGED <<product, cartItem, cartQuantity, order, orderItem,
                   nextCartItemId, nextOrderId, nextOrderItemId, walletLock,
                   acct, tx, started, histVars>>

\* to_register_page, lines 540-552: Account, AccountProfile, Cart and Wallet
\* are inserted in one atomic block
RegisterCreate(p) ==
    /\ pc[p] = "reg_create"
    /\ IF UsernameTaken(form[p].username)
       THEN \* the name was taken meanwhile: IntegrityError at the first insert
            /\ Finish(p, IntegrityError)
            /\ UNCHANGED <<walletBalance, userVars>>
       ELSE IF EmailTaken(form[p].email)
       THEN \* IntegrityError at the profile: the Account insert is rolled
            \* back, its id is used up
            /\ nextAccountId' = nextAccountId + 1
            /\ Finish(p, IntegrityError)
            /\ UNCHANGED <<walletBalance, account, cartRows, walletRows>>
       ELSE /\ account' = [account EXCEPT ![nextAccountId] =
                             [exists |-> TRUE, username |-> form[p].username,
                              email |-> form[p].email, status |-> "normal"]]
            /\ cartRows' = [cartRows EXCEPT ![nextAccountId] = 1]
            /\ walletRows' = [walletRows EXCEPT ![nextAccountId] = 1]
            /\ walletBalance' = [walletBalance EXCEPT
                                   ![nextAccountId] = InitialBalance]
            /\ nextAccountId' = nextAccountId + 1
            /\ Finish(p, [kind |-> "Registered"])
    /\ UNCHANGED <<product, cartItem, cartQuantity, order, orderItem,
                   nextCartItemId, nextOrderId, nextOrderItemId, walletLock,
                   acct, tx, started, histVars>>

\* admin_user_create, lines 1044-1068: parse and validate the form
UserCreateCheck(p) ==
    \E f \in CreateForms, submitted \in Balances :
        /\ Accept(p)
        /\ nextAccountId + Cardinality(Creating) <= MaxAccounts
        /\ started' = started + 1
        /\ IF f.username = "" \/ UsernameTaken(f.username)
              \/ (f.email # "" /\ EmailTaken(f.email))
           THEN Finish(p, [kind |-> "InvalidInput"])
           ELSE /\ form' = [form EXCEPT ![p] =
                              [username |-> f.username,
                               email |-> IF f.email = "" THEN f.username
                                         ELSE f.email]]
                /\ balance' = [balance EXCEPT ![p] = submitted]
                /\ pc' = [pc EXCEPT ![p] = "uc_create"]
                /\ resp' = [resp EXCEPT ![p] = NoResp]
                /\ UNCHANGED <<product_id, item, cart_items, total, receiver>>
        /\ UNCHANGED <<dbVars, userVars, walletLock, acct, tx, histVars>>

\* admin_user_create, lines 1070-1084: the same four inserts in one atomic
\* block, the wallet with the balance submitted
UserCreateCommit(p) ==
    /\ pc[p] = "uc_create"
    /\ IF UsernameTaken(form[p].username)
       THEN /\ Finish(p, IntegrityError)
            /\ UNCHANGED <<walletBalance, userVars>>
       ELSE IF EmailTaken(form[p].email)
       THEN /\ nextAccountId' = nextAccountId + 1
            /\ Finish(p, IntegrityError)
            /\ UNCHANGED <<walletBalance, account, cartRows, walletRows>>
       ELSE /\ account' = [account EXCEPT ![nextAccountId] =
                             [exists |-> TRUE, username |-> form[p].username,
                              email |-> form[p].email, status |-> "normal"]]
            /\ cartRows' = [cartRows EXCEPT ![nextAccountId] = 1]
            /\ walletRows' = [walletRows EXCEPT ![nextAccountId] = 1]
            /\ walletBalance' = [walletBalance EXCEPT
                                   ![nextAccountId] = balance[p]]
            /\ nextAccountId' = nextAccountId + 1
            /\ Finish(p, ToUsers)
    /\ UNCHANGED <<product, cartItem, cartQuantity, order, orderItem,
                   nextCartItemId, nextOrderId, nextOrderItemId, walletLock,
                   acct, tx, started, histVars>>

\* admin_user_delete, lines 1182-1192: look the account up; the admin's own
\* account is left alone, an account with orders is locked
UserDeleteCheck(p) ==
    \E u \in AccountIds :
        /\ Begin(p, u)
        /\ IF ~account[u].exists
           THEN /\ Finish(p, [kind |-> "NotFound"])
                /\ UNCHANGED account
           ELSE IF u = AdminId
           THEN /\ Finish(p, ToUsers)
                /\ UNCHANGED account
           ELSE IF \E o \in order : o.account = u
           THEN /\ account' = [account EXCEPT ![u].status = "locked"]
                /\ Finish(p, ToUsers)
           ELSE /\ pc' = [pc EXCEPT ![p] = "ud_delete"]
                /\ resp' = [resp EXCEPT ![p] = NoResp]
                /\ UNCHANGED <<account, localVars>>
        /\ UNCHANGED <<dbVars, cartRows, walletRows, nextAccountId,
                       walletLock, tx, histVars>>

\* admin_user_delete, line 1194: u.delete() and the on_delete=CASCADE rules
\* of models.py (profile, wallet, cart and its lines, orders and their
\* lines).  The DELETE of the wallet row waits for the row lock.
UserDelete(p) ==
    /\ pc[p] = "ud_delete"
    /\ LockFree(acct[p])
    /\ account' = [account EXCEPT ![acct[p]] = NoAccount]
    /\ cartRows' = [cartRows EXCEPT ![acct[p]] = 0]
    /\ walletRows' = [walletRows EXCEPT ![acct[p]] = 0]
    /\ walletBalance' = [walletBalance EXCEPT ![acct[p]] = 0]
    /\ cartItem' = {r \in cartItem : r.cart # acct[p]}
    /\ cartQuantity' = [a \in Accounts |->
                          IF a = acct[p] THEN 0 ELSE cartQuantity[a]]
    /\ order' = {o \in order : o.account # acct[p]}
    /\ orderItem' = {i \in orderItem :
                        \E o \in order : o.order_id = i.order
                                         /\ o.account # acct[p]}
    /\ Finish(p, ToUsers)
    /\ UNCHANGED <<product, nextCartItemId, nextOrderId, nextOrderItemId,
                   nextAccountId, walletLock, acct, tx, started, histVars>>

\* admin_user_toggle, lines 1165-1173: look the account up; the admin's own
\* account is left alone, any other account flips between normal and locked
UserToggle(p) ==
    \E u \in AccountIds :
        /\ Begin(p, u)
        /\ IF ~account[u].exists
           THEN /\ Finish(p, [kind |-> "NotFound"])
                /\ UNCHANGED account
           ELSE IF u = AdminId
           THEN /\ Finish(p, ToUsers)
                /\ UNCHANGED account
           ELSE /\ account' = [account EXCEPT ![u].status =
                                 IF @ = "normal" THEN "locked" ELSE "normal"]
                /\ Finish(p, ToUsers)
        /\ UNCHANGED <<dbVars, cartRows, walletRows, nextAccountId,
                       walletLock, tx, histVars>>

UserStep(p) ==
    \/ RegisterCheck(p)
    \/ RegisterCreate(p)
    \/ UserCreateCheck(p)
    \/ UserCreateCommit(p)
    \/ UserDeleteCheck(p)
    \/ UserDelete(p)

\* ------------------------------------------------------------ back office

\* mutant of ProductEdit: the totals of the orders are derived again from
\* the new price
ProductEditRederivesTotals(p) ==
    \E prod \in Products, name \in EditNames, price \in EditPrices,
       image \in EditImages :
        /\ Accept(p)
        /\ started' = started + 1
        /\ IF ~product[prod].exists
           THEN /\ Finish(p, [kind |-> "NotFound"])
                /\ UNCHANGED product
           ELSE IF name = "" \/ price <= 0
           THEN /\ Finish(p, [kind |-> "InvalidInput"])
                /\ UNCHANGED product
           ELSE /\ product' = [product EXCEPT
                                ![prod].product_name = name,
                                ![prod].price = price,
                                ![prod].image = IF image # "" THEN image ELSE @]
                /\ Finish(p, [kind |-> "Redirect"])
        /\ order' = IF product' = product THEN order
                    ELSE {[o EXCEPT !.total_amount = SumSubtotal(
                             {[id |-> i.id, quantity |-> i.quantity,
                               price |-> IF i.product = prod THEN price
                                         ELSE i.unit_price] :
                                 i \in {j \in orderItem :
                                           j.order = o.order_id}})] :
                          o \in order}
        /\ UNCHANGED <<cartItem, cartQuantity, walletBalance, orderItem,
                       nextCartItemId, nextOrderId, nextOrderItemId,
                       walletLock, acct, tx, histVars>>
        /\ UNCHANGED userVars

\* admin_product_edit, lines 909-982: validate, then p.save()
ProductEdit(p) ==
    \E prod \in Products, name \in EditNames, price \in EditPrices,
       image \in EditImages :
        /\ Accept(p)
        /\ started' = started + 1
        /\ IF ~product[prod].exists
           THEN /\ Finish(p, [kind |-> "NotFound"])
                /\ UNCHANGED product
           ELSE IF name = "" \/ price <= 0
           THEN /\ Finish(p, [kind |-> "InvalidInput"])
                /\ UNCHANGED product
           ELSE /\ product' = [product EXCEPT
                                ![prod].product_name = name,
                                ![prod].price = price,
                                ![prod].image = IF image # "" THEN image ELSE @]
                /\ Finish(p, [kind |-> "Redirect"])
        /\ UNCHANGED <<cartItem, cartQuantity, walletBalance, order, orderItem,
                       nextCartItemId, nextOrderId, nextOrderItemId,
                       walletLock, acct, tx, histVars>>
        /\ UNCHANGED userVars

\* mutant of ProductDelete: OrderItem.product declared on_delete=CASCADE
ProductDeleteCascade(p) ==
    \E prod \in Products :
        /\ Accept(p)
        /\ started' = started + 1
        /\ IF ~product[prod].exists
           THEN /\ Finish(p, [kind |-> "NotFound"])
                /\ UNCHANGED <<product, cartItem, orderItem>>
           ELSE /\ product' = [product EXCEPT ![prod].exists = FALSE]
                /\ cartItem' = {r \in cartItem : r.product # prod}
                /\ orderItem' = {r \in orderItem : r.product # prod}
                /\ Finish(p, [kind |-> "Redirect"])
        /\ UNCHANGED <<cartQuantity, walletBalance, order, nextCartItemId,
                       nextOrderId, nextOrderItemId, walletLock, acct, tx,
                       histVars>>
        /\ UNCHANGED userVars

\* admin_product_delete, lines 1002-1003: p.delete() with the on_delete rules
\* of models.py (CartItem.product CASCADE, OrderItem.product SET_NULL)
ProductDelete(p) ==
    \E prod \in Products :
        /\ Accept(p)
        /\ started' = started + 1
        /\ IF ~product[prod].exists
           THEN /\ Finish(p, [kind |-> "NotFound"])
                /\ UNCHANGED <<product, cartItem, orderItem>>
           ELSE /\ product' = [product EXCEPT ![prod].exists = FALSE]
                /\ cartItem' = {r \in cartItem : r.product # prod}
                /\ orderItem' = {IF r.product = prod
                                 THEN [r EXCEPT !.product = NoProduct]
                                 ELSE r : r \in orderItem}
                /\ Finish(p, [kind |-> "Redirect"])
        /\ UNCHANGED <<cartQuantity, walletBalance, order, nextCartItemId,
                       nextOrderId, nextOrderItemId, walletLock, acct, tx,
                       histVars>>
        /\ UNCHANGED userVars

\* admin_user_edit, lines 1104-1137: read the wallet, parse and validate
UserEditRead(p) ==
    \E a \in Accounts, username \in {"", "user"}, blank \in BOOLEAN,
       submitted \in Balances :
        /\ Begin(p, a)
        /\ IF ~account[a].exists
           THEN /\ Finish(p, [kind |-> "NotFound"])
                /\ UNCHANGED <<cartRows, walletRows>>
           ELSE \* lines 1094-1105: get_or_create of profile, wallet and cart
                /\ walletRows' = GetOrCreate(walletRows, a)
                /\ cartRows' = GetOrCreate(cartRows, a)
                /\ IF username = ""
                   THEN Finish(p, [kind |-> "InvalidInput"])
                   ELSE /\ balance' = [balance EXCEPT ![p] =
                                         IF blank THEN walletBalance[a]
                                         ELSE submitted]
                        /\ pc' = [pc EXCEPT ![p] = "ue_save"]
                        /\ resp' = [resp EXCEPT ![p] = NoResp]
                        /\ UNCHANGED <<product_id, item, cart_items, total,
                                       receiver, form>>
        /\ UNCHANGED <<dbVars, walletLock, tx, histVars>>
        /\ UNCHANGED <<account, nextAccountId>>

\* admin_user_edit, lines 1153-1154: wallet.balance = balance; save.  The
\* UPDATE waits for the row lock a checkout or top-up may hold.
UserEditSave(p) ==
    /\ pc[p] = "ue_save"
    /\ LockFree(acct[p])
    /\ IF walletRows[acct[p]] > 0
       THEN /\ walletBalance' = [walletBalance EXCEPT ![acct[p]] = balance[p]]
            /\ Finish(p, [kind |-> "Redirect"])
       ELSE \* the account was deleted meanwhile: u.save() and
            \* profile.save() insert the rows again, the UPDATE of the
            \* wallet matches no row, DatabaseError rolls the block back
            /\ Finish(p, [kind |-> "ServerError"])
            /\ UNCHANGED walletBalance
    /\ UNCHANGED <<product, cartItem, cartQuantity, order, orderItem,
                   nextCartItemId, nextOrderId, nextOrderItemId, walletLock,
                   acct, tx, started, histVars>>
    /\ UNCHANGED userVars

\* mutant of OrderUpdateStatus: cancelling an order refunds its total
OrderUpdateStatusRefund(p) ==
    \E o \in order, new_status \in StatusInputs :
        /\ Accept(p)
        /\ started' = started + 1
        /\ order' = IF new_status \in Statuses
                    THEN (order \ {o}) \cup {[o EXCEPT !.status = new_status]}
                    ELSE order
        /\ walletBalance' = IF new_status = "CANCELLED"
                            THEN [walletBalance EXCEPT ![o.account] = @ + o.total_amount]
                            ELSE walletBalance
        /\ Finish(p, ToOrderDetail)
        /\ UNCHANGED <<product, cartItem, cartQuantity,
                       orderItem, nextCartItemId, nextOrderId, nextOrderItemId,
                       walletLock, acct, tx, histVars>>
        /\ UNCHANGED userVars

\* admin_order_update_status, lines 772-781
OrderUpdateStatus(p) ==
    \E o \in order, new_status \in StatusInputs :
        /\ Accept(p)
        /\ started' = started + 1
        /\ order' = IF new_status \in Statuses
                    THEN (order \ {o}) \cup {[o EXCEPT !.status = new_status]}
                    ELSE order
        /\ Finish(p, ToOrderDetail)
        /\ UNCHANGED <<product, cartItem, cartQuantity, walletBalance,
                       orderItem, nextCartItemId, nextOrderId, nextOrderItemId,
                       walletLock, acct, tx, histVars>>
        /\ UNCHANGED userVars

CartStep(p) ==
    \/ AddFind(p)
    \/ AddWrite(p)
    \/ DecFind(p)
    \/ DecWrite(p)
    \/ RemoveDelete(p)
    \/ RecalcSum(p)
    \/ RecalcSave(p)

PayStep(p) ==
    \/ CheckoutRead(p)
    \/ CheckoutLock(p)
    \/ CheckoutDebit(p)
    \/ CheckoutOrder(p)
    \/ CheckoutItems(p)
    \/ CheckoutCommit(p)
    \/ CheckoutAbort(p)
    \/ TopupLock(p)
    \/ TopupSave(p)

AdminStep(p) ==
    \/ ProductEdit(p)
    \/ ProductDelete(p)
    \/ UserEditRead(p)
    \/ UserEditSave(p)
    \/ OrderUpdateStatus(p)

\* the shop and back-office requests on the accounts there are, interleaved
\* at their statements
Next == \E p \in Procs : CartStep(p) \/ PayStep(p) \/ AdminStep(p)

\* the customer's requests only: cart, checkout and top-up
NextShop == \E p \in Procs : CartStep(p) \/ PayStep(p)

\* the requests that insert or delete Account, Cart and Wallet rows:
\* registration, admin_user_create, admin_user_delete, and the handlers
\* that call get_or_create (add_to_cart, wallet_topup, admin_user_edit)
NextUsers ==
    \E p \in Procs :
        \/ UserStep(p)
        \/ AddFind(p) \/ AddWrite(p) \/ RecalcSum(p) \/ RecalcSave(p)
        \/ TopupLock(p) \/ TopupSave(p)
        \/ UserEditRead(p) \/ UserEditSave(p)

\* a customer who fills the cart, tops up and checks out while the admin
\* deletes and toggles accounts
NextDelete ==
    \E p \in Procs :
        \/ AddFind(p) \/ AddWrite(p) \/ RecalcSum(p) \/ RecalcSave(p)
        \/ PayStep(p)
        \/ UserDeleteCheck(p) \/ UserDelete(p)
        \/ UserToggle(p)

\* one request at a time: a request starts when no other is in flight
Alone(p) == \A q \in Procs \ {p} : pc[q] = "idle"

NextSeq ==
    \E p \in Procs :
        Alone(p) /\ (CartStep(p) \/ PayStep(p) \/ AdminStep(p) \/ ViewCart(p))

\* cart requests only, one at a time
NextCart == \E p \in Procs : Alone(p) /\ CartStep(p)

\* cart requests only, interleaved at their statements
NextCartRace == \E p \in Procs : CartStep(p)

Spec == Init /\ [][Next]_vars

SpecUsers == Init /\ [][NextUsers]_vars

SpecDelete == Init /\ [][NextDelete]_vars

SpecShop == Init /\ [][NextShop]_vars

SpecSeq == Init /\ [][NextSeq]_vars

SpecCart == Init /\ [][NextCart]_vars

SpecCartRace == Init /\ [][NextCartRace]_vars
\* ------------------------------------------------------------- properties
AllIdle == \A p \in Procs : pc[p] = "idle"

\* slot p takes the step that leaves position at
Leaves(p, at) == pc[p] = at /\ pc'[p] # at

RECURSIVE LineQuantity(_, _, _)
\* the quantities of the lines of cart a among rows, line by line over the
\* primary keys 1..n
LineQuantity(rows, a, n) ==
    IF n = 0 THEN 0
    ELSE LET line == {r \in rows : r.id = n /\ r.cart = a}
         IN  (IF line = {} THEN 0 ELSE (CHOOSE r \in line : TRUE).quantity)
             + LineQuantity(rows, a, n - 1)

RECURSIVE LineTotal(_, _, _, _)
\* quantity x price of the lines of cart a among rows, at the prices of prods
LineTotal(rows, prods, a, n) ==
    IF n = 0 THEN 0
    ELSE LET line == {r \in rows : r.id = n /\ r.cart = a}
         IN  (IF line = {} THEN 0
              ELSE LET r == CHOOSE x \in line : TRUE
                   IN  r.quantity * prods[r.product].price)
             + LineTotal(rows, prods, a, n - 1)

RECURSIVE OrdersTotal(_, _, _)
\* the total_amount of the orders of account a among ords, ids 1..n
OrdersTotal(ords, a, n) ==
    IF n = 0 THEN 0
    ELSE LET o == {x \in ords : x.order_id = n /\ x.account = a}
         IN  (IF o = {} THEN 0 ELSE (CHOOSE x \in o : TRUE).total_amount)
             + OrdersTotal(ords, a, n - 1)

\* the cart lines an order sold: (CartItem id, quantity) of its OrderItems
SoldLines(o) ==
    {<<i.cart_item, i.quantity>> : i \in {j \in orderItem : j.order = o.order_id}}

\* C1: two checkouts of one account never produce two Orders (two debits)
\* for the same cart state, however they interleave
C1_OneOrderPerCartState ==
    \A o1 \in order, o2 \in order :
        (o1.account = o2.account /\ SoldLines(o1) = SoldLines(o2))
            => o1.order_id = o2.order_id

\* C2: a checkout that succeeds without interference debits exactly the cart
\* total at current prices, empties the cart, sets cart.quantity to 0 and
\* creates one PAID Order of that total with one OrderItem per cart line
\* carrying the line's product name, unit price and quantity
C2_CheckoutSuccess ==
    [][\A p \in Procs :
        (Leaves(p, "co_clear") /\ resp'[p].kind = "Order") =>
            LET a    == acct[p]
                due  == LineTotal(cartItem, product, a, nextCartItemId - 1)
                newO == order' \ order
                newI == orderItem' \ orderItem
            IN  /\ walletBalance'[a] = walletBalance[a] - due
                /\ {r \in cartItem' : r.cart = a} = {}
                /\ cartQuantity'[a] = 0
                /\ Cardinality(newO) = 1
                /\ \A o \in newO :
                     /\ o.status = "PAID" /\ o.total_amount = due /\ o.account = a
                     /\ \A i \in newI : i.order = o.order_id
                /\ Cardinality(newI) = Cardinality(CartRows(a))
                /\ \A r \in CartRows(a) :
                     \E i \in newI :
                        /\ i.cart_item = r.id
                        /\ i.product = r.product
                        /\ i.product_name = product[r.product].product_name
                        /\ i.unit_price = product[r.product].price
                        /\ i.quantity = r.quantity]_vars

\* C2 witness: an order of two lines was paid and the cart is empty
C2_Witness ==
    \E o \in order :
        /\ Cardinality({i \in orderItem : i.order = o.order_id}) = 2
        /\ walletBalance[o.account] = credited[o.account] - o.total_amount
        /\ CartRows(o.account) = {}

\* C3: a checkout that finds balance < total under the wallet lock answers
\* InsufficientFunds with the balance it read there, and changes neither
\* the wallet, the cart lines, cart.quantity, the Orders nor the OrderItems
C3_InsufficientFunds ==
    [][\A p \in Procs :
        (Leaves(p, "co_lock") /\ walletBalance[acct[p]] < total[p]) =>
            /\ resp'[p] = [kind |-> "InsufficientFunds",
                           balance |-> walletBalance[acct[p]]]
            /\ UNCHANGED <<walletBalance, cartItem, cartQuantity, order,
                           orderItem>>]_vars

\* C3 witness: a checkout of a non-empty cart was refused for lack of funds
C3_Witness ==
    \E p \in Procs :
        /\ resp[p].kind = "InsufficientFunds"
        /\ cartItem # {}
        /\ order = {}

\* C4: in every state the checkout debits committed on an account add up to
\* the total_amount of the account's Orders, aborted checkouts included
C4_DebitMatchesOrders ==
    \A a \in Accounts : debited[a] = OrdersTotal(order, a, nextOrderId - 1)

\* C4 witness: one checkout was rolled back and another one committed
C4_Witness ==
    /\ \E p \in Procs : resp[p].kind = "ServerError"
    /\ order # {}
    /\ nextOrderId > Cardinality(order) + 1

\* C5: when all top-ups and checkouts have finished the balance is the
\* initial balance plus the accepted top-ups minus the totals of the Orders
C5_NoLostUpdate ==
    AllIdle =>
        \A a \in Accounts :
            10 * walletBalance[a] =
                10 * InitialBalance + accepted[a]
                    - 10 * OrdersTotal(order, a, nextOrderId - 1)

\* C5 witness: a top-up and a checkout have both committed
C5_Witness ==
    /\ AllIdle
    /\ \E a \in Accounts : credited[a] > 0 /\ debited[a] > 0

\* C6: top-ups and checkouts never take a wallet balance below zero
C6_BalanceNonNegative ==
    \A a \in Accounts : walletBalance[a] >= 0

\* C6 witness: a checkout has spent the whole balance
C6_Witness ==
    \E a \in Accounts : debited[a] > 0 /\ walletBalance[a] = 0
\* C7 as stated: only wallet_topup and checkout ever change a wallet balance
C7_OnlyTopupAndCheckout ==
    [][walletBalance' # walletBalance =>
         \E p \in Procs : Leaves(p, "tu_save") \/ Leaves(p, "co_clear")]_vars

\* C7 (amended): a wallet balance is changed only by wallet_topup, by
\* checkout and by admin_user_edit, which overwrites it with the balance
\* submitted; every other operation leaves every balance unchanged
C7_BalanceWriters ==
    [][walletBalance' # walletBalance =>
         \E p \in Procs : \/ Leaves(p, "tu_save")
                          \/ Leaves(p, "co_clear")
                          \/ Leaves(p, "ue_save")]_vars

\* C7 witness: an order was paid and then cancelled by the admin, and the
\* balance still is what the top-ups and the checkout left
C7_Witness ==
    \E o \in order :
        /\ o.status = "CANCELLED"
        /\ walletBalance[o.account] = credited[o.account] - o.total_amount
        /\ AllIdle

\* C8: with add_to_cart / cart_inc / cart_dec / cart_remove run one at a
\* time, after each request cart.quantity is the sum of the quantities of
\* the cart's lines
C8_QuantityIsLineSum ==
    AllIdle =>
        \A a \in Accounts :
            cartQuantity[a] = LineQuantity(cartItem, a, nextCartItemId - 1)

\* C8 witness: two lines were created, one is gone, the other has quantity 2
C8_Witness ==
    /\ AllIdle
    /\ nextCartItemId = 3
    /\ Cardinality(cartItem) = 1
    /\ \E r \in cartItem : r.quantity = 2 /\ cartQuantity[r.cart] = 2

\* C9: after every operation of the system, checkout and admin_product_delete
\* included, cart.quantity is the sum of the quantities of the cart's lines
C9_QuantityAfterEveryOperation ==
    [][AllIdle' =>
         \A a \in Accounts :
            cartQuantity'[a] = LineQuantity(cartItem', a, nextCartItemId' - 1)]_vars

C11_OneLinePerProduct ==
    \A r1 \in cartItem, r2 \in cartItem :
        (r1.cart = r2.cart /\ r1.product = r2.product) => r1.id = r2.id

\* slot p takes a request and answers it at once with kind
Answers(p, kind) ==
    /\ Accept(p)
    /\ started' = started + 1
    /\ pc'[p] = "idle"
    /\ resp'[p].kind = kind

\* a receiver field that is not empty after trimming
Filled(field) == \E i \in 1..Len(field) : field[i] # " "

\* C12: a checkout POST answers EmptyCart exactly when the cart total is
\* <= 0 (whatever the receiver fields are) and InvalidInput only for a
\* non-empty cart; both rejections leave wallet, wallet lock, Orders,
\* OrderItems and cart untouched, and a checkout that goes on to the wallet
\* has a positive total and three filled receiver fields
C12_RejectedCheckout ==
    [][\A p \in Procs :
        LET due == LineTotal(cartItem, product, acct'[p], nextCartItemId - 1)
        IN  /\ Answers(p, "EmptyCart") => due <= 0
            /\ Answers(p, "InvalidInput") => due > 0
            /\ (Answers(p, "EmptyCart") \/ Answers(p, "InvalidInput")) =>
                 UNCHANGED <<walletBalance, walletLock, order, orderItem,
                             cartItem, cartQuantity, tx, debited>>
            /\ (pc[p] = "idle" /\ pc'[p] = "co_lock") =>
                 /\ due > 0
                 /\ \A i \in 1..3 : Filled(receiver'[p][i])]_vars

\* C12 witness: a checkout of a non-empty cart with money in the wallet was
\* refused for a blank receiver field
C12_Witness ==
    \E p \in Procs :
        /\ resp[p].kind = "InvalidInput"
        /\ cartItem # {}
        /\ \E a \in Accounts : walletBalance[a] > 0
        /\ order = {}
\* C13: wallet_topup answers InvalidAmount and leaves the balance alone when
\* the parsed amount is <= 0, and otherwise adds exactly the amount to the
\* balance and changes nothing else
C13_TopupExactAmount ==
    [][\A p \in Procs :
        /\ Answers(p, "InvalidAmount") =>
             UNCHANGED <<walletBalance, accepted, cartItem, cartQuantity,
                         order, orderItem>>
        /\ (pc[p] = "idle" /\ pc'[p] = "tu_save") => total'[p] > 0
        /\ Leaves(p, "tu_save") =>
             /\ 10 * walletBalance'[acct[p]]
                   = 10 * walletBalance[acct[p]] + total[p]
             /\ UNCHANGED <<cartItem, cartQuantity, order, orderItem, product>>]_vars

\* C14: once an OrderItem exists, editing or deleting its Product leaves the
\* row in place with product_name, unit_price, quantity and
\* product_image_name unchanged; only the product reference may change, and
\* only to null when the Product is deleted.
C14_OrderItemSnapshot ==
    [][product' # product =>
          /\ Cardinality(orderItem') = Cardinality(orderItem)
          /\ \A i \in orderItem :
                \E j \in orderItem' :
                    /\ j.id = i.id
                    /\ j.order = i.order
                    /\ j.product_name = i.product_name
                    /\ j.unit_price = i.unit_price
                    /\ j.quantity = i.quantity
                    /\ j.product_image_name = i.product_image_name
                    /\ \/ j.product = i.product
                       \/ /\ j.product = NoProduct
                          /\ product[i.product].exists
                          /\ ~product'[i.product].exists]_vars

\* an order line outlives its product: the reference is null, the copy stays
C14_Witness ==
    \E i \in orderItem :
        /\ i.product = NoProduct
        /\ i.product_name = "P1"
        /\ i.product_image_name = "p1.png"
        /\ ~product[1].exists

RECURSIVE ItemsTotal(_, _, _)
\* unit_price x quantity of the OrderItems of order oid among rows, ids 1..n
ItemsTotal(rows, oid, n) ==
    IF n = 0 THEN 0
    ELSE LET line == {i \in rows : i.id = n /\ i.order = oid}
         IN  (IF line = {} THEN 0
              ELSE LET i == CHOOSE x \in line : TRUE
                   IN  i.unit_price * i.quantity)
             + ItemsTotal(rows, oid, n - 1)

\* C15: a product deleted before the checkout commits never makes the
\* checkout fail with an unhandled error, and the Order a checkout creates
\* has no OrderItem of a deleted product and a total_amount that is the sum
\* of the lines it does have.
C15_CheckoutSurvivesDelete ==
    [][\A p \in Procs :
          /\ (Leaves(p, "co_items") \/ Leaves(p, "co_clear"))
                => resp'[p] # IntegrityError
          /\ (Leaves(p, "co_clear") /\ resp'[p].kind = "Order")
                => /\ \A i \in orderItem' \ orderItem :
                          product'[i.product].exists
                   /\ \A o \in order' \ order :
                          o.total_amount =
                              ItemsTotal(orderItem', o.order_id,
                                         nextOrderItemId - 1)]_vars

\* C16: an existing Order stays, with its total_amount, account and receiver
\* name, phone and address unchanged; only its status changes, and only in a
\* step of admin_order_update_status.
C16_OrderImmutable ==
    [][\A o \in order :
          \E n \in order' :
              /\ n.order_id = o.order_id
              /\ n.total_amount = o.total_amount
              /\ n.account = o.account
              /\ n.receiver_name = o.receiver_name
              /\ n.receiver_phone = o.receiver_phone
              /\ n.receiver_address = o.receiver_address
              /\ n.status # o.status =>
                    /\ n.status \in Statuses
                    /\ \E p \in Procs : /\ Answers(p, "Redirect")
                                         /\ resp'[p] = ToOrderDetail]_vars

\* C16 witness: a paid order was cancelled and kept its total and receiver
C16_Witness ==
    \E o \in order :
        /\ o.status = "CANCELLED"
        /\ o.total_amount > 0
        /\ Filled(o.receiver_name)
        /\ \E p \in Procs : resp[p] = ToOrderDetail

\* C17: add_to_cart, cart_dec and cart_remove called with the id of a
\* product that is not in the catalog go no further than the lookup: they
\* answer NotFound, and cart lines and cart.quantity stay as they were.
C17_UnknownProductNotFound ==
    [][\A p \in Procs :
          /\ (pc[p] = "idle"
                 /\ pc'[p] \in {"add_write", "dec_write", "recalc_sum"})
                => product[product_id'[p]].exists
          /\ Answers(p, "NotFound") => UNCHANGED <<cartItem, cartQuantity>>]_vars

\* C18: every Account has exactly one Wallet and exactly one Cart, and
\* there is no Wallet or Cart without its Account: the rows are created
\* together or not at all and go together.
C18_OneWalletOneCart ==
    \A a \in AccountIds :
        IF account[a].exists
        THEN walletRows[a] = 1 /\ cartRows[a] = 1
        ELSE walletRows[a] = 0 /\ cartRows[a] = 0

\* C18 witness: the shop account was deleted, a new account was created, and
\* a creation that failed at the profile was rolled back (its id is used up)
C18_Witness ==
    /\ ~account[1].exists
    /\ \E a \in AccountIds : a > AdminId /\ account[a].exists
    /\ \E a \in AccountIds : a > AdminId /\ a < nextAccountId
                              /\ ~account[a].exists
    /\ \E p \in Procs : resp[p] = IntegrityError

\* C19: however concurrent add_to_cart / cart_dec / cart_remove requests on
\* one cart interleave, once none of them is in flight cart.quantity is
\* the sum of the quantities of the cart's lines.
C19_QuantityEventuallyConsistent ==
    \A a \in Accounts :
        (\A p \in Procs : pc[p] = "idle" \/ acct[p] # a)
            => cartQuantity[a] = LineQuantity(cartItem, a, nextCartItemId - 1)

\* C20: prices are live until the order is placed.  The cart view shows the
\* total of the lines at the prices the products have now, and a checkout
\* that succeeds in that state debits that same total, records it as
\* total_amount and copies the price each product has now into unit_price,
\* whatever the price was when the line was added.
C20_LivePrices ==
    [][\A p \in Procs :
          LET a   == acct'[p]
              now == LineTotal(cartItem, product, a, nextCartItemId - 1)
          IN  /\ Answers(p, "Cart") => resp'[p].cart_total = now
              /\ (Leaves(p, "co_clear") /\ resp'[p].kind = "Order")
                    => /\ walletBalance[a] - walletBalance'[a] = now
                       /\ \A o \in order' \ order : o.total_amount = now
                       /\ \A i \in orderItem' \ orderItem :
                              i.unit_price = product[i.product].price]_vars

\* C20 witness: product 1, listed at 1, was sold at the price 2 it was
\* edited to, and the wallet was debited by that amount
C20_Witness ==
    \E o \in order, i \in orderItem :
        /\ i.order = o.order_id
        /\ i.product = 1
        /\ i.unit_price = 2
        /\ o.total_amount = 2 * i.quantity
        /\ debited[o.account] = o.total_amount

\* C21: in every state every Order carries as total_amount the sum of
\* unit_price x quantity over its OrderItems, whatever cart requests and
\* price edits ran while the checkout was in flight.
C21_TotalIsItemSum ==
    \A o \in order :
        o.total_amount = ItemsTotal(orderItem, o.order_id, nextOrderItemId - 1)

\* C21 witness: an order holds a line at a price its product no longer has
C21_Witness ==
    \E o \in order, i \in orderItem :
        /\ i.order = o.order_id
        /\ i.product # NoProduct
        /\ product[i.product].exists
        /\ product[i.product].price # i.unit_price
        /\ o.total_amount > 0

\* C22: a checkout that succeeds deletes from the cart only what it sold:
\* every CartItem row its commit removes is a line of the created Order,
\* with the quantity the row holds when it is removed.
C22_DeletesOnlySold ==
    [][\A p \in Procs :
          (Leaves(p, "co_clear") /\ resp'[p].kind = "Order")
          => \A r \in cartItem \ cartItem' :
                 \E i \in orderItem' \ orderItem :
                     /\ i.cart_item = r.id
                     /\ i.product = r.product
                     /\ i.quantity = r.quantity]_vars

\* C23: admin_user_delete never removes an Order: the step that ends it
\* leaves every Order in place, and an account that has an Order stays (it
\* is locked instead), also when the Order was committed by a checkout
\* between the handler's existence check and its delete; and the admin's own
\* account is neither deleted nor locked by admin_user_delete or
\* admin_user_toggle, the only requests here that write Account rows.
C23_DeleteKeepsOrders ==
    [][/\ \A p \in Procs : Leaves(p, "ud_delete") => order \subseteq order'
       /\ \A a \in AccountIds :
             (account[a].exists /\ \E o \in order : o.account = a)
             => account'[a].exists
       /\ account'[AdminId] = account[AdminId]]_vars

\* C24: admin_user_create and admin_user_edit never store a negative wallet
\* balance: whatever balance is submitted, the wallet the request writes
\* holds a balance >= 0 when the request has ended.
C24_AdminBalanceNonNegative ==
    [][\A p \in Procs :
          /\ Leaves(p, "uc_create") => walletBalance'[nextAccountId] >= 0
          /\ Leaves(p, "ue_save") => walletBalance'[acct[p]] >= 0]_vars

\* C25: every Order's status is one of PAID, PENDING, FAILED, CANCELLED; a
\* request of admin_order_update_status changes a status only to one of
\* these four (with any other value submitted the Order stays as it is), and
\* it leaves every wallet balance as it was, so that cancelling or failing a
\* paid order refunds nothing.
C25_StatusSetNoRefund ==
    [][/\ \A n \in order' :
             n.status \in {"PAID", "PENDING", "FAILED", "CANCELLED"}
       /\ \A p \in Procs :
             (Answers(p, "Redirect") /\ resp'[p] = ToOrderDetail)
             => /\ walletBalance' = walletBalance
                /\ \A o \in order :
                      \/ o \in order'
                      \/ \E s \in {"PAID", "PENDING", "FAILED", "CANCELLED"} :
                            [o EXCEPT !.status = s] \in order']_vars

\* C25 witness: the admin has cancelled a paid order and the wallet still
\* lacks what the checkouts debited
C25_Witness ==
    \E o \in order, p \in Procs :
        /\ resp[p] = ToOrderDetail
        /\ o.status = "CANCELLED"
        /\ debited[o.account] >= o.total_amount
        /\ o.total_amount > 0
        /\ walletBalance[o.account] = credited[o.account] - debited[o.account]

====
